---- MODULE Spec2Model ----
(***************************************************************************)
(* HadoopFS (src/fs/hadoop.py): the filesystem adapter over WebHDFS.       *)
(*                                                                         *)
(* Python strings are modelled as sequences of one-character strings, so   *)
(* that lstrip, os.path.join, os.path.dirname, normpath, recursepath and   *)
(* isprefix are computed character by character as the code computes them. *)
(* The remote namespace is a set of directory keys and a map from file     *)
(* keys to contents; a key is the sequence of the path's components.       *)
(***************************************************************************)
EXTENDS Integers, Sequences, FiniteSets, TLC

VARIABLES
    base,        \* HadoopFS.base, the configured root (a string)
    buffersize,  \* HadoopFS.buffersize: {} until open() assigns it, then {value}
    dirs,        \* remote namespace: the keys that are directories
    files,       \* remote namespace: file key -> content (sequence of bytes)
    handles,     \* the _HadoopFileLike objects returned by open(), in order
    last,        \* the call the synchronous caller is returning from
    pending      \* the call of a second caller that is between two client calls

vars == <<base, buffersize, dirs, files, handles, last, pending>>

-----------------------------------------------------------------------------
(* Python string primitives                                                *)

SEP == "/"

\* str.lstrip("/")
RECURSIVE LStripSlash(_)
LStripSlash(s) ==
    IF s # <<>> /\ Head(s) = SEP THEN LStripSlash(Tail(s)) ELSE s

\* str.rstrip("/")
RECURSIVE RStripSlash(_)
RStripSlash(s) ==
    IF s # <<>> /\ s[Len(s)] = SEP THEN RStripSlash(SubSeq(s, 1, Len(s) - 1)) ELSE s

\* str.rfind("/") + 1: the index just after the last separator, 0 if none
RFindSlash(s) ==
    LET idx == {i \in 1..Len(s) : s[i] = SEP}
    IN IF idx = {} THEN 0 ELSE CHOOSE i \in idx : \A j \in idx : j <= i

\* str.split("/"): the components between separators, empty ones included
RECURSIVE SplitSlash(_)
SplitSlash(s) ==
    LET idx == {i \in 1..Len(s) : s[i] = SEP}
    IN IF idx = {} THEN <<s>>
       ELSE LET i == CHOOSE k \in idx : \A j \in idx : k <= j
            IN <<SubSeq(s, 1, i - 1)>> \o SplitSlash(SubSeq(s, i + 1, Len(s)))

\* "/".join(components)
RECURSIVE JoinSlash(_)
JoinSlash(comps) ==
    IF comps = <<>> THEN <<>>
    ELSE IF Len(comps) = 1 THEN comps[1]
    ELSE comps[1] \o <<SEP>> \o JoinSlash(Tail(comps))

\* os.path.join(a, b) (posixpath)
OsPathJoin(a, b) ==
    IF b # <<>> /\ Head(b) = SEP THEN b
    ELSE IF a = <<>> \/ a[Len(a)] = SEP THEN a \o b
    ELSE a \o <<SEP>> \o b

\* os.path.dirname(p), which is also os.path.split(p)[0] (posixpath)
OsPathDirname(p) ==
    LET head == SubSeq(p, 1, RFindSlash(p))
    IN IF head # <<>> /\ (\E i \in 1..Len(head) : head[i] # SEP)
       THEN RStripSlash(head) ELSE head

-----------------------------------------------------------------------------
(* fs.path                                                                 *)

DOT == <<".">>
DOTDOT == <<".", ".">>

\* the value standing for "normpath raised BackReferenceError"
BackRef == <<"BackReferenceError">>

\* fs.path._requires_normalization: the regex (^|/)\.\.?($|/)|//
RequiresNormalization(path) ==
    \/ \E i \in 1..Len(SplitSlash(path)) : SplitSlash(path)[i] \in {DOT, DOTDOT}
    \/ \E i \in 1..(Len(path) - 1) : path[i] = SEP /\ path[i + 1] = SEP

\* the component loop of fs.path.normpath: "", "." are dropped, ".." pops
RECURSIVE NormComponents(_, _)
NormComponents(comps, acc) ==
    IF comps = <<>> THEN acc
    ELSE IF Head(comps) = DOTDOT
         THEN IF acc = <<>> THEN BackRef
              ELSE NormComponents(Tail(comps), SubSeq(acc, 1, Len(acc) - 1))
    ELSE IF Head(comps) \in {DOT, <<>>} THEN NormComponents(Tail(comps), acc)
    ELSE NormComponents(Tail(comps), Append(acc, Head(comps)))

\* fs.path.normpath
normpath(path) ==
    IF path \in {<<>>, <<SEP>>} THEN path
    ELSE IF ~RequiresNormalization(path) THEN RStripSlash(path)
    ELSE LET comps == NormComponents(SplitSlash(path), <<>>)
         IN IF comps = BackRef THEN BackRef
            ELSE (IF Head(path) = SEP THEN <<SEP>> ELSE <<>>) \o JoinSlash(comps)

\* fs.path.abspath
abspath(path) ==
    IF path = <<>> THEN <<SEP>>
    ELSE IF Head(path) # SEP THEN <<SEP>> \o path
    ELSE path

\* the while loop of fs.path.recursepath over path = abspath(normpath(p)) + "/"
RECURSIVE RecurseLoop(_, _, _)
RecurseLoop(path, pos, paths) ==
    IF pos >= Len(path) THEN paths
    ELSE LET idx == {i \in (pos + 1)..Len(path) : path[i] = SEP}
             found == CHOOSE k \in idx : \A j \in idx : k <= j
         IN RecurseLoop(path, found, Append(paths, SubSeq(path, 1, found - 1)))

\* reversed(seq)
Reverse(seq) == [i \in 1..Len(seq) |-> seq[Len(seq) + 1 - i]]

\* fs.path.recursepath(path, reverse=True)
recursepath(path) ==
    IF path \in {<<>>, <<SEP>>} THEN <<<<SEP>>>>
    ELSE IF normpath(path) = BackRef THEN BackRef
    ELSE Reverse(RecurseLoop(abspath(normpath(path)) \o <<SEP>>, 1, <<<<SEP>>>>))

\* bits1 with its trailing empty components popped (the while loop of isprefix)
RECURSIVE PopEmpty(_)
PopEmpty(bits) ==
    IF bits # <<>> /\ bits[Len(bits)] = <<>>
    THEN PopEmpty(SubSeq(bits, 1, Len(bits) - 1)) ELSE bits

\* fs.path.isprefix(path1, path2)
isprefix(path1, path2) ==
    LET bits1 == PopEmpty(SplitSlash(path1))
        bits2 == SplitSlash(path2)
    IN /\ Len(bits1) <= Len(bits2)
       /\ \A i \in 1..Len(bits1) : bits1[i] = bits2[i]

-----------------------------------------------------------------------------
(* The WebHDFS namespace behind pywebhdfs.webhdfs.PyWebHdfsClient           *)

NonEmptyComp(c) == c # <<>>

\* the namespace key of a path handed to the client: its components
Key(p) == SelectSeq(SplitSlash(p), NonEmptyComp)

Prefixes(k) == {SubSeq(k, 1, n) : n \in 0..Len(k)}
IsUnder(k, anc) == Len(anc) <= Len(k) /\ SubSeq(k, 1, Len(anc)) = anc
Subtree(ds, fs, k) == {x \in ds \cup DOMAIN fs : IsUnder(x, k)}
HasChildren(ds, fs, k) == \E x \in ds \cup DOMAIN fs : IsUnder(x, k) /\ x # k

\* the files of fs whose keys are in keep
Restrict(fs, keep) == [x \in (DOMAIN fs) \cap keep |-> fs[x]]

NoExc == [exception |-> "", message |-> ""]
Exc(e, m) == [exception |-> e, message |-> m]

\* GETFILESTATUS: the FileStatus type, or FileNotFound
RemoteGetStatus(ds, fs, p) ==
    IF Key(p) \in ds THEN "DIRECTORY"
    ELSE IF Key(p) \in DOMAIN fs THEN "FILE"
    ELSE "FileNotFound"

\* MKDIRS: creates the directory and every missing ancestor (mkdir -p)
RemoteMakeDir(ds, fs, p) ==
    IF Key(p) \in DOMAIN fs
    THEN [exc |-> Exc("FileAlreadyExistsException", "Path is not a directory"),
          dirs |-> ds, files |-> fs]
    ELSE IF Prefixes(Key(p)) \cap DOMAIN fs # {}
    THEN [exc |-> Exc("ParentNotDirectoryException", "Parent path is not a directory"),
          dirs |-> ds, files |-> fs]
    ELSE [exc |-> NoExc, dirs |-> ds \cup Prefixes(Key(p)), files |-> fs]

\* DELETE: the namenode refuses a non-empty directory unless recursive, and
\* answers false, changing nothing, for an absent path and for its own root
RemoteDelete(ds, fs, p, recursive) ==
    LET k == Key(p)
        gone == Subtree(ds, fs, k)
    IN IF k \in ds /\ HasChildren(ds, fs, k) /\ ~recursive
       THEN [exc |-> Exc("PathIsNotEmptyDirectoryException", "is non empty"),
             dirs |-> ds, files |-> fs]
       ELSE IF k = <<>> \/ k \notin ds \cup DOMAIN fs
       THEN [exc |-> NoExc, dirs |-> ds, files |-> fs]
       ELSE [exc |-> NoExc, dirs |-> ds \ gone,
             files |-> Restrict(fs, (DOMAIN fs) \ gone)]

\* where RENAME puts the source: into the destination when that is a directory
RenameTarget(ds, sk, dk) ==
    IF dk \in ds /\ sk # <<>> THEN Append(dk, sk[Len(sk)]) ELSE dk

\* whether the namenode carries out RENAME (it answers false otherwise)
RenameAllowed(ds, fs, sk, dk) ==
    LET tk == RenameTarget(ds, sk, dk)
    IN /\ sk # <<>>
       /\ sk \in ds \cup DOMAIN fs
       /\ ~IsUnder(tk, sk)
       /\ tk \notin ds \cup DOMAIN fs
       /\ tk # <<>>
       /\ SubSeq(tk, 1, Len(tk) - 1) \in ds

Rekey(x, sk, tk) == tk \o SubSeq(x, Len(sk) + 1, Len(x))

\* RENAME: moves the source subtree; a refused rename answers false with
\* status 200, which the client does not raise
RemoteRename(ds, fs, src, dst) ==
    LET sk == Key(src)
        dk == Key(dst)
        tk == RenameTarget(ds, sk, dk)
        moved == Subtree(ds, fs, sk)
        newfiles == {Rekey(x, sk, tk) : x \in moved \cap DOMAIN fs}
        Old(y) == CHOOSE x \in moved \cap DOMAIN fs : Rekey(x, sk, tk) = y
    IN IF ~RenameAllowed(ds, fs, sk, dk)
       THEN [exc |-> NoExc, dirs |-> ds, files |-> fs]
       ELSE [exc |-> NoExc,
             dirs |-> (ds \ moved) \cup {Rekey(x, sk, tk) : x \in moved \cap ds},
             files |-> [y \in ((DOMAIN fs) \ moved) \cup newfiles |->
                          IF y \in newfiles THEN fs[Old(y)] ELSE fs[y]]]

\* CREATE with empty data: makes the missing ancestors; an existing file is
\* replaced only with overwrite
RemoteCreate(ds, fs, p, overwrite) ==
    LET k == Key(p)
    IN IF k \in ds \/ (k \in DOMAIN fs /\ ~overwrite)
       THEN [exc |-> Exc("FileAlreadyExistsException", "already exists"),
             dirs |-> ds, files |-> fs]
       ELSE IF (Prefixes(k) \ {k}) \cap DOMAIN fs # {}
       THEN [exc |-> Exc("ParentNotDirectoryException", "Parent path is not a directory"),
             dirs |-> ds, files |-> fs]
       ELSE [exc |-> NoExc, dirs |-> ds \cup (Prefixes(k) \ {k}),
             files |-> [y \in (DOMAIN fs) \cup {k} |-> IF y = k THEN <<>> ELSE fs[y]]]

\* APPEND
RemoteAppend(ds, fs, p, data) ==
    LET k == Key(p)
    IN IF k \notin DOMAIN fs
       THEN [exc |-> Exc("FileNotFoundException", "File does not exist"),
             dirs |-> ds, files |-> fs]
       ELSE [exc |-> NoExc, dirs |-> ds, files |-> [fs EXCEPT ![k] = @ \o data]]

\* OPEN: the whole content of the file
RemoteRead(ds, fs, p) ==
    LET k == Key(p)
    IN IF k \notin DOMAIN fs
       THEN [exc |-> Exc("FileNotFoundException", "File does not exist"), data |-> <<>>]
       ELSE [exc |-> NoExc, data |-> fs[k]]

-----------------------------------------------------------------------------
(* HadoopFS: helpers                                                       *)

TYPE_FILE == "FILE"
TYPE_DIRECTORY == "DIRECTORY"

\* one call on self.client: method, path, second path or data, flag
Call(m, p, q, f) == [m |-> m, p |-> p, q |-> q, f |-> f]

\* hdfs_errors: the error a PyWebHdfsException is re-raised as. A remote
\* message is modelled by the phrase the decorator searches it for.
hdfs_errors(e) ==
    IF e = NoExc THEN "ok"
    ELSE IF e.message = "is non empty" THEN "DirectoryNotEmptyError"
    ELSE IF e.message = "Parent path is not a directory" THEN "ResourceInvalidError"
    ELSE IF e.exception \in {"LeaseExpiredException", "AlreadyBeingCreatedException",
                             "FileAlreadyExistsException"}
         THEN "ResourceLockedError"
    ELSE "FSError"

\* a _base that normalises the path and leaves the base out
BaseOfUnprefixed(b, path) == normpath(LStripSlash(path))

\* HadoopFS._base with the instance's base given explicitly
BaseOf(b, path) ==
    LET p == LStripSlash(path)
    IN IF b # <<>>
       THEN LET n == normpath(OsPathJoin(b, p))
            IN IF n = BackRef THEN BackRef ELSE LStripSlash(n)
       ELSE normpath(p)

\* HadoopFS._base
Base(path) == BaseOf(base, path)

\* HadoopFS._status: one get_file_dir_status call. hdfs_path is BackRef when
\* the _base call in the argument raised, and no call is made then.
Status(ds, fs, hdfs_path, safe) ==
    IF hdfs_path = BackRef
    THEN [err |-> "BackReferenceError", type |-> "", calls |-> <<>>]
    ELSE LET p == LStripSlash(hdfs_path)
             r == RemoteGetStatus(ds, fs, p)
         IN [err |-> IF r = "FileNotFound" /\ ~safe
                     THEN "ResourceNotFoundError" ELSE "ok",
             type |-> IF r = "FileNotFound" THEN "" ELSE r,
             calls |-> <<Call("get_file_dir_status", p, <<>>, FALSE)>>]

\* HadoopFS.isdir
IsDir(ds, fs, path) ==
    LET st == Status(ds, fs, Base(path), TRUE)
    IN [err |-> st.err, val |-> st.type = TYPE_DIRECTORY, calls |-> st.calls]

\* HadoopFS.isfile
IsFile(ds, fs, path) ==
    LET st == Status(ds, fs, Base(path), TRUE)
    IN [err |-> st.err, val |-> st.type = TYPE_FILE, calls |-> st.calls]

\* HadoopFS._is_dir_file: the safe argument is not passed on to _status
IsDirFile(ds, fs, hdfs_path, safe) ==
    LET st == Status(ds, fs, hdfs_path, TRUE)
    IN [err |-> st.err, is_dir |-> st.type = TYPE_DIRECTORY,
        is_file |-> st.type = TYPE_FILE, calls |-> st.calls]

\* a failure of the service: the k-th client call of an operation raises the
\* PyWebHdfsException exc (other than FileNotFound); k = 0 is no failure
NoFault == [k |-> 0, exc |-> NoExc]
At(fault, n) == IF fault.k = n THEN fault.exc ELSE NoExc

\* what a client call that raised e leaves: the exception, nothing changed
Raised(e, ds, fs) == [exc |-> e, dirs |-> ds, files |-> fs]

\* HadoopFS._status when get_file_dir_status raises e: the exception passes
\* the except FileNotFound clause and the decorator of _status re-raises it
StatusUnder(ds, fs, hdfs_path, safe, e) ==
    IF e = NoExc \/ hdfs_path = BackRef THEN Status(ds, fs, hdfs_path, safe)
    ELSE [err |-> hdfs_errors(e), type |-> "",
          calls |-> <<Call("get_file_dir_status", LStripSlash(hdfs_path), <<>>, FALSE)>>]

\* HadoopFS.isdir when get_file_dir_status raises e
IsDirUnder(ds, fs, path, e) ==
    [err |-> StatusUnder(ds, fs, Base(path), TRUE, e).err,
     val |-> StatusUnder(ds, fs, Base(path), TRUE, e).type = TYPE_DIRECTORY,
     calls |-> StatusUnder(ds, fs, Base(path), TRUE, e).calls]

\* HadoopFS._is_dir_file when get_file_dir_status raises e
IsDirFileUnder(ds, fs, hdfs_path, safe, e) ==
    [err |-> StatusUnder(ds, fs, hdfs_path, TRUE, e).err,
     is_dir |-> StatusUnder(ds, fs, hdfs_path, TRUE, e).type = TYPE_DIRECTORY,
     is_file |-> StatusUnder(ds, fs, hdfs_path, TRUE, e).type = TYPE_FILE,
     calls |-> StatusUnder(ds, fs, hdfs_path, TRUE, e).calls]

\* what an operation leaves: the error raised ("ok" if none), the client
\* calls it made, and the namespace after them
Out(err, calls, ds, fs) == [err |-> err, calls |-> calls, dirs |-> ds, files |-> fs]

-----------------------------------------------------------------------------
(* HadoopFS.makedir                                                        *)

\* a makedir that hands the client the parent's path instead of the path
MakedirArgOfParent(path) == Base(OsPathDirname(path))

\* the argument of client.make_dir
MakedirArg(path) == Base(path)

\* parent_dir, _ = os.path.split(path)
MakedirParent(path) == OsPathDirname(path)

\* the body of makedir over what its calls answer: c is the _is_dir_file of
\* the path, par the isdir of the parent, mk the make_dir
MakedirGiven(ds, fs, path, recursive, allow_recreate, c, par, mk) ==
    IF c.err # "ok" THEN Out(c.err, c.calls, ds, fs)
    ELSE IF c.is_dir
    THEN Out(IF allow_recreate THEN "ok" ELSE "DestinationExistsError",
             c.calls, ds, fs)
    ELSE IF c.is_file THEN Out("ResourceInvalidError", c.calls, ds, fs)
    ELSE IF par.err # "ok" THEN Out(par.err, c.calls \o par.calls, ds, fs)
    ELSE IF par.val \/ recursive
    THEN Out(hdfs_errors(mk.exc),
             c.calls \o par.calls \o <<Call("make_dir", MakedirArg(path), <<>>, FALSE)>>,
             mk.dirs, mk.files)
    ELSE Out("ParentDirectoryMissingError", c.calls \o par.calls, ds, fs)

Makedir(ds, fs, path, recursive, allow_recreate) ==
    MakedirGiven(ds, fs, path, recursive, allow_recreate,
                 IsDirFile(ds, fs, Base(path), TRUE),
                 IsDir(ds, fs, MakedirParent(path)),
                 RemoteMakeDir(ds, fs, MakedirArg(path)))

\* makedir while the service fails as fault says
MakedirUnder(ds, fs, path, recursive, allow_recreate, fault) ==
    MakedirGiven(ds, fs, path, recursive, allow_recreate,
                 IsDirFileUnder(ds, fs, Base(path), TRUE, At(fault, 1)),
                 IsDirUnder(ds, fs, MakedirParent(path), At(fault, 2)),
                 IF fault.k = 3 THEN Raised(fault.exc, ds, fs)
                 ELSE RemoteMakeDir(ds, fs, MakedirArg(path)))

-----------------------------------------------------------------------------
(* HadoopFS.remove                                                         *)

\* the safe argument of the _status call in remove
RemoveSafe == FALSE

\* the body of remove over what its calls answer: info is the _status of
\* hdfs_path, del the delete_file_dir
RemoveGiven(ds, fs, hdfs_path, info, del) ==
    IF info.err # "ok" THEN Out(info.err, info.calls, ds, fs)
    ELSE IF info.type = TYPE_DIRECTORY
    THEN Out("ResourceInvalidError", info.calls, ds, fs)
    ELSE Out(hdfs_errors(del.exc),
             info.calls \o <<Call("delete_file_dir", hdfs_path, <<>>, FALSE)>>,
             del.dirs, del.files)

Remove(ds, fs, path) ==
    RemoveGiven(ds, fs, Base(path),
                Status(ds, fs, Base(path), RemoveSafe),
                RemoteDelete(ds, fs, Base(path), FALSE))

\* remove while the service fails as fault says
RemoveUnder(ds, fs, path, fault) ==
    RemoveGiven(ds, fs, Base(path),
                StatusUnder(ds, fs, Base(path), RemoveSafe, At(fault, 1)),
                IF fault.k = 2 THEN Raised(fault.exc, ds, fs)
                ELSE RemoteDelete(ds, fs, Base(path), FALSE))

-----------------------------------------------------------------------------
(* HadoopFS.removedir                                                      *)

\* if path == "/"
IsRootArg(path) == path = <<SEP>>

\* a removedir that always asks the namenode for a recursive delete
PrimaryDeleteAlwaysRecursive(force) == TRUE

\* the recursive argument of the primary delete_file_dir call
PrimaryDeleteRecursive(force) == force

\* a loop whose delete attempts ask the namenode for a recursive delete
CleanupDeleteAlwaysRecursive(hdfs_path) == TRUE

\* the recursive argument of the delete_file_dir call in the loop
CleanupDeleteRecursive(hdfs_path) == FALSE

\* a pass of the loop that probes the directory and never deletes it
CleanupStepProbeOnly(acc, hdfs_path, d, del) ==
    Out(d.err, acc.calls \o d.calls, acc.dirs, acc.files)

\* the loop over recursepath(path, reverse=True): a directory other than "/"
\* gets a non-recursive delete whose PyWebHdfsException is passed over
\* one pass of the loop body for a directory other than "/": d is the isdir
\* of dir_path, del the delete_file_dir of its hdfs path
CleanupStep(acc, hdfs_path, d, del) ==
    IF d.err # "ok" THEN Out(d.err, acc.calls \o d.calls, acc.dirs, acc.files)
    ELSE IF ~d.val THEN Out("ok", acc.calls \o d.calls, acc.dirs, acc.files)
    ELSE Out("ok",
             acc.calls \o d.calls
               \o <<Call("delete_file_dir", hdfs_path, <<>>, CleanupDeleteRecursive(hdfs_path))>>,
             del.dirs, del.files)

\* the calls of the loop are counted on from those made before it: the
\* probe of a pass is call Len(acc.calls) + 1 of the operation, its delete
\* the call after
RECURSIVE Cleanup(_, _, _)
Cleanup(todo, acc, fault) ==
    IF todo = <<>> \/ acc.err # "ok" THEN acc
    ELSE IF Head(todo) = <<SEP>> THEN Cleanup(Tail(todo), acc, fault)
    ELSE Cleanup(Tail(todo),
                 CleanupStep(acc, Base(Head(todo)),
                             IsDirUnder(acc.dirs, acc.files, Head(todo),
                                        At(fault, Len(acc.calls) + 1)),
                             IF fault.k = Len(acc.calls) + 2
                             THEN Raised(fault.exc, acc.dirs, acc.files)
                             ELSE RemoteDelete(acc.dirs, acc.files, Base(Head(todo)),
                                               CleanupDeleteRecursive(Base(Head(todo))))),
                 fault)

\* the body of removedir over what its calls answer: info is the _status of
\* hdfs_path, del the primary delete_file_dir, todo the recursepath of path,
\* fault the failure of the service during the call
RemovedirGiven(ds, fs, path, recursive, force, hdfs_path, info, del, todo, fault) ==
    IF hdfs_path = BackRef THEN Out("BackReferenceError", <<>>, ds, fs)
    ELSE IF IsRootArg(path) THEN Out("RemoveRootError", <<>>, ds, fs)
    ELSE IF info.err # "ok" THEN Out(info.err, info.calls, ds, fs)
    ELSE IF info.type # TYPE_DIRECTORY
    THEN Out("ResourceInvalidError", info.calls, ds, fs)
    ELSE LET calls == info.calls
                        \o <<Call("delete_file_dir", hdfs_path, <<>>,
                                  PrimaryDeleteRecursive(force))>>
         IN IF del.exc # NoExc THEN Out(hdfs_errors(del.exc), calls, ds, fs)
            ELSE IF ~recursive THEN Out("ok", calls, del.dirs, del.files)
            ELSE IF todo = BackRef
            THEN Out("BackReferenceError", calls, del.dirs, del.files)
            ELSE Cleanup(todo, Out("ok", calls, del.dirs, del.files), fault)

Removedir(ds, fs, path, recursive, force) ==
    RemovedirGiven(ds, fs, path, recursive, force, Base(path),
                   Status(ds, fs, Base(path), FALSE),
                   RemoteDelete(ds, fs, Base(path), PrimaryDeleteRecursive(force)),
                   recursepath(path), NoFault)

\* removedir while the service fails as fault says
RemovedirUnder(ds, fs, path, recursive, force, fault) ==
    RemovedirGiven(ds, fs, path, recursive, force, Base(path),
                   StatusUnder(ds, fs, Base(path), FALSE, At(fault, 1)),
                   IF fault.k = 2 THEN Raised(fault.exc, ds, fs)
                   ELSE RemoteDelete(ds, fs, Base(path), PrimaryDeleteRecursive(force)),
                   recursepath(path), fault)

-----------------------------------------------------------------------------
(* HadoopFS.rename                                                         *)

\* os.path.dirname(dest), whose isdir() decides ParentDirectoryMissingError
RenameParent(dest) == OsPathDirname(dest)

\* dest_exists and any(is_dirs) and not all(is_dirs)
KindMismatch(src_is_dir, dest_is_dir, dest_is_file) ==
    /\ dest_is_dir \/ dest_is_file
    /\ src_is_dir \/ dest_is_dir
    /\ ~(src_is_dir /\ dest_is_dir)

\* the body of rename over what its calls answer: s and d are the
\* _is_dir_file of the two hdfs paths, par the isdir of the destination's
\* parent, ren the rename_file_dir
RenameGiven(ds, fs, src_hdfs_path, dest_hdfs_path, s, d, par, ren) ==
    IF src_hdfs_path = BackRef \/ dest_hdfs_path = BackRef
    THEN Out("BackReferenceError", <<>>, ds, fs)
    ELSE IF par.err # "ok" THEN Out(par.err, s.calls \o d.calls, ds, fs)
    ELSE IF ~par.val
    THEN Out("ParentDirectoryMissingError", s.calls \o d.calls \o par.calls, ds, fs)
    ELSE IF \/ isprefix(src_hdfs_path, dest_hdfs_path)
            \/ KindMismatch(s.is_dir, d.is_dir, d.is_file)
    THEN Out("ResourceInvalidError", s.calls \o d.calls \o par.calls, ds, fs)
    ELSE Out(hdfs_errors(ren.exc),
             s.calls \o d.calls \o par.calls
               \o <<Call("rename_file_dir", src_hdfs_path, dest_hdfs_path, FALSE)>>,
             ren.dirs, ren.files)

Rename(ds, fs, src, dest) ==
    RenameGiven(ds, fs, Base(src), Base(dest),
                IsDirFile(ds, fs, Base(src), FALSE),
                IsDirFile(ds, fs, Base(dest), FALSE),
                IsDir(ds, fs, RenameParent(dest)),
                RemoteRename(ds, fs, Base(src), Base(dest)))

-----------------------------------------------------------------------------
(* HadoopFS.open and _HadoopFileLike                                       *)

InMode(c, mode) == \E i \in 1..Len(mode) : mode[i] = c

\* the attributes FileLikeBase.__init__ gives every file-like object
FileLikeBaseAttrs == {"bufsize", "closed", "_rbuffer", "_wbuffer", "_sbuffer", "_soffset"}

\* _HadoopFileLike.__init__: hdfs_path, client and eof are the attributes set
NewHandle(hdfs_path) ==
    [hdfs_path |-> hdfs_path, eof |-> FALSE, closed |-> FALSE,
     attrs |-> {"hdfs_path", "client", "eof"} \cup FileLikeBaseAttrs]

NoHandle == [hdfs_path |-> <<>>, eof |-> FALSE, closed |-> TRUE, attrs |-> {}]

\* the assignments to self.buffersize in open(): self is the HadoopFS
OpenBuffersize(buf, buffering) ==
    IF buffering = 1 THEN {4 * 1024}
    ELSE IF buffering > 1 THEN {buffering}
    ELSE buf

\* os.path.dirname(path), whose isdir()/isfile() decide the parent errors
OpenParent(path) == OsPathDirname(path)

\* what open leaves: Out, the instance's buffersize and the handle returned
OpenOut(err, calls, ds, fs, buf, h) ==
    [err |-> err, calls |-> calls, dirs |-> ds, files |-> fs, buf |-> buf, handle |-> h]

\* the body of open over what its calls answer: c is the _is_dir_file of hp,
\* nbuf the buffersize assigned, pd and pf the isdir and isfile of the parent,
\* cr the create_file of a new file, tr the create_file that truncates
OpenGiven(ds, fs, buf, mode, hp, c, nbuf, pd, pf, cr, tr) ==
    IF c.err # "ok" THEN OpenOut(c.err, c.calls, ds, fs, buf, NoHandle)
    ELSE IF c.is_dir
    THEN OpenOut("ResourceInvalidError", c.calls, ds, fs, buf, NoHandle)
    ELSE IF ~c.is_file
    THEN IF ~InMode("w", mode) /\ ~InMode("a", mode)
         THEN OpenOut("ResourceNotFoundError", c.calls, ds, fs, nbuf, NoHandle)
         ELSE IF pd.err # "ok"
         THEN OpenOut(pd.err, c.calls \o pd.calls, ds, fs, nbuf, NoHandle)
         ELSE IF ~pd.val
         THEN OpenOut(IF pf.val THEN "ResourceInvalidError"
                      ELSE "ParentDirectoryMissingError",
                      c.calls \o pd.calls \o pf.calls, ds, fs, nbuf, NoHandle)
         ELSE OpenOut(hdfs_errors(cr.exc),
                      c.calls \o pd.calls \o <<Call("create_file", hp, <<>>, FALSE)>>,
                      cr.dirs, cr.files, nbuf,
                      IF cr.exc = NoExc THEN NewHandle(hp) ELSE NoHandle)
    ELSE IF InMode("w", mode)
    THEN OpenOut(hdfs_errors(tr.exc),
                 c.calls \o <<Call("create_file", hp, <<>>, TRUE)>>,
                 tr.dirs, tr.files, nbuf,
                 IF tr.exc = NoExc THEN NewHandle(hp) ELSE NoHandle)
    ELSE OpenOut("ok", c.calls, ds, fs, nbuf, NewHandle(hp))

Open(ds, fs, buf, path, mode, buffering) ==
    OpenGiven(ds, fs, buf, mode, Base(path),
              IsDirFile(ds, fs, Base(path), FALSE),
              OpenBuffersize(buf, buffering),
              IsDir(ds, fs, OpenParent(path)),
              IsFile(ds, fs, OpenParent(path)),
              RemoteCreate(ds, fs, Base(path), FALSE),
              RemoteCreate(ds, fs, Base(path), TRUE))

\* what _read returns at end of stream
None == <<"None">>

\* what a handle operation leaves: Out, the value returned and the handle
HandleOut(err, calls, ds, fs, ret, h) ==
    [err |-> err, calls |-> calls, dirs |-> ds, files |-> fs, ret |-> ret, handle |-> h]

\* _HadoopFileLike._read: self.buffersize is evaluated for the call's
\* arguments, and raises AttributeError on an object without the attribute
ReadHandle(ds, fs, h) ==
    LET rd == RemoteRead(ds, fs, h.hdfs_path)
    IN IF h.eof THEN HandleOut("ok", <<>>, ds, fs, None, h)
       ELSE IF "buffersize" \notin h.attrs
       THEN HandleOut("AttributeError", <<>>, ds, fs, None, h)
       ELSE IF rd.exc # NoExc
       THEN HandleOut(hdfs_errors(rd.exc),
                      <<Call("read_file", h.hdfs_path, <<>>, FALSE)>>, ds, fs, None, h)
       ELSE HandleOut("ok", <<Call("read_file", h.hdfs_path, <<>>, FALSE)>>, ds, fs,
                      rd.data, [h EXCEPT !.eof = TRUE])

\* _HadoopFileLike._write
WriteHandle(ds, fs, h, data) ==
    LET ap == RemoteAppend(ds, fs, h.hdfs_path, data)
    IN IF "buffersize" \notin h.attrs
       THEN HandleOut("AttributeError", <<>>, ds, fs, None, h)
       ELSE HandleOut(hdfs_errors(ap.exc),
                      <<Call("append_file", h.hdfs_path, data, FALSE)>>,
                      ap.dirs, ap.files, None, h)

-----------------------------------------------------------------------------
(* Bounds and inputs                                                       *)

\* open handles tracked at a time
MaxHandles == 1
\* longest byte string a single write() is given
MaxData == 1

Bytes == {"x", "y"}
Data == UNION {[1..n -> Bytes] : n \in 0..MaxData}

\* the configured roots
Bases == {<<"/">>, <<"/", "r">>}

\* the caller paths: "/", "", ".", "/a", "a/", "/b", "/a/b", "/a/b/", "/b/a",
\* "/a/..", "..", "../r/a", "/a/b/c", "/a/c"
PathInputs ==
    { <<"/">>, <<>>, <<".">>,
      <<"/", "a">>, <<"a", "/">>, <<"/", "b">>,
      <<"/", "a", "/", "b">>, <<"/", "a", "/", "b", "/">>,
      <<"/", "b", "/", "a">>,
      <<"/", "a", "/", ".", ".">>, <<".", ".">>,
      <<".", ".", "/", "r", "/", "a">>,
      <<"/", "a", "/", "b", "/", "c">>, <<"/", "a", "/", "c">> }

Modes == {<<"r">>, <<"w">>, <<"a">>}
Bufferings == {-1, 1}

\* the keys the caller paths reach under base b, with their ancestors
Addressable(b) ==
    UNION {Prefixes(Key(BaseOf(b, p))) : p \in {q \in PathInputs : BaseOf(b, q) # BackRef}}

\* the namespaces the adapter may be constructed over: an empty one, and one
\* holding a directory a with a file a/b, and a file b, under the root
PriorNamespaces(b) ==
    LET bk == Key(b)
    IN { [dirs |-> {<<>>}, files |-> <<>>],
         [dirs |-> Prefixes(bk \o <<<<"a">>>>),
          files |-> (bk \o <<<<"a">>, <<"b">>>> :> <<"x">>) @@ (bk \o <<<<"b">>>> :> <<"x", "y">>)] }

-----------------------------------------------------------------------------
(* The state machine: one synchronous caller, one call at a time           *)

\* no call of the second caller is under way
NoCall == [op |-> "none", pc |-> 0, a |-> <<>>, s |-> <<>>, d |-> <<>>, par |-> <<>>]

Idle ==
    [op |-> "idle", a |-> <<>>, err |-> "ok", ret |-> None, calls |-> <<>>,
     pdirs |-> {}, pfiles |-> <<>>, phandles |-> <<>>, pbuf |-> {}]

\* the record of a finished call: the operation, its arguments, the error it
\* raised, what it returned, the client calls it made, and the state before
Done(op, a, err, ret, calls) ==
    [op |-> op, a |-> a, err |-> err, ret |-> ret, calls |-> calls,
     pdirs |-> dirs, pfiles |-> files, phandles |-> handles, pbuf |-> buffersize]

\* HadoopFS.__init__: base is stored and make_dir(base.lstrip("/")) creates it
Init ==
    \E b \in Bases : \E ns \in PriorNamespaces(b) :
        LET mk == RemoteMakeDir(ns.dirs, ns.files, LStripSlash(b))
        IN /\ base = b
           /\ buffersize = {}
           /\ dirs = mk.dirs
           /\ files = mk.files
           /\ handles = [i \in 1..MaxHandles |-> NoHandle]
           /\ last = Idle
           /\ pending = NoCall

\* the model keeps the namespace within the keys the caller paths reach
Bounded(r) == r.dirs \cup DOMAIN r.files \subseteq Addressable(base)

\* a namespace operation ends: r is what it leaves
Finish(op, a, r) ==
    /\ Bounded(r)
    /\ dirs' = r.dirs
    /\ files' = r.files
    /\ last' = Done(op, a, r.err, None, r.calls)

makedir ==
    /\ last.op = "idle"
    /\ \E path \in PathInputs, recursive \in BOOLEAN, allow_recreate \in BOOLEAN :
         Finish("makedir",
                [path |-> path, recursive |-> recursive, allow_recreate |-> allow_recreate],
                Makedir(dirs, files, path, recursive, allow_recreate))
    /\ UNCHANGED <<base, pending, buffersize, handles>>

remove ==
    /\ last.op = "idle"
    /\ \E path \in PathInputs :
         Finish("remove", [path |-> path], Remove(dirs, files, path))
    /\ UNCHANGED <<base, pending, buffersize, handles>>

removedir ==
    /\ last.op = "idle"
    /\ \E path \in PathInputs, recursive \in BOOLEAN, force \in BOOLEAN :
         Finish("removedir", [path |-> path, recursive |-> recursive, force |-> force],
                Removedir(dirs, files, path, recursive, force))
    /\ UNCHANGED <<base, pending, buffersize, handles>>

rename ==
    /\ last.op = "idle"
    /\ \E src \in PathInputs, dest \in PathInputs :
         Finish("rename", [src |-> src, dest |-> dest], Rename(dirs, files, src, dest))
    /\ UNCHANGED <<base, pending, buffersize, handles>>

FreeSlots == {i \in 1..MaxHandles : handles[i] = NoHandle}
FirstFree == CHOOSE i \in FreeSlots : \A j \in FreeSlots : i <= j

\* open ends: r is what it leaves, and a handle it returns takes the free slot
FinishOpen(path, mode, buffering, r) ==
    /\ Bounded(r)
    /\ dirs' = r.dirs
    /\ files' = r.files
    /\ buffersize' = r.buf
    /\ handles' = IF r.handle = NoHandle THEN handles
                  ELSE [handles EXCEPT ![FirstFree] = r.handle]
    /\ last' = Done("open",
                    [path |-> path, mode |-> mode, buffering |-> buffering,
                     h |-> IF r.handle = NoHandle THEN 0 ELSE FirstFree],
                    r.err, None, r.calls)

open ==
    /\ last.op = "idle"
    /\ FreeSlots # {}
    /\ \E path \in PathInputs, mode \in Modes, buffering \in Bufferings :
         FinishOpen(path, mode, buffering,
                    Open(dirs, files, buffersize, path, mode, buffering))
    /\ UNCHANGED <<base, pending>>

\* an operation on handle i ends: r is what it leaves
FinishHandle(op, a, i, r) ==
    /\ dirs' = r.dirs
    /\ files' = r.files
    /\ handles' = [handles EXCEPT ![i] = r.handle]
    /\ last' = Done(op, a, r.err, r.ret, r.calls)

read ==
    /\ last.op = "idle"
    /\ \E i \in 1..MaxHandles :
         /\ handles[i] # NoHandle
         /\ FinishHandle("read", [h |-> i], i, ReadHandle(dirs, files, handles[i]))
    /\ UNCHANGED <<base, pending, buffersize>>

write ==
    /\ last.op = "idle"
    /\ \E i \in 1..MaxHandles, data \in Data :
         /\ handles[i] # NoHandle
         /\ FinishHandle("write", [h |-> i, data |-> data], i,
                         WriteHandle(dirs, files, handles[i], data))
    /\ UNCHANGED <<base, pending, buffersize>>

close ==
    /\ last.op = "idle"
    /\ \E i \in 1..MaxHandles :
         /\ handles[i] # NoHandle
         /\ handles' = [handles EXCEPT ![i] = NoHandle]
         /\ last' = Done("close", [h |-> i], "ok", None, <<>>)
    /\ UNCHANGED <<base, pending, buffersize, dirs, files>>

\* the caller takes the result; the adapter is ready for the next call
Return ==
    /\ last.op # "idle"
    /\ last' = Idle
    /\ UNCHANGED <<base, pending, buffersize, dirs, files, handles>>

\* the directory and namespace operations
Next ==
    \/ makedir
    \/ remove
    \/ removedir
    \/ rename
    \/ Return

Spec == Init /\ [][Next]_vars

\* the file operations
NextFile ==
    \/ open
    \/ read
    \/ write
    \/ close
    \/ Return

SpecFile == Init /\ [][NextFile]_vars

-----------------------------------------------------------------------------
(* Path resolution and the read-only operations                            *)

\* LISTSTATUS: the entries of a directory by pathSuffix, the single entry
\* with an empty pathSuffix of a file, or FileNotFound
RemoteList(ds, fs, p) ==
    LET k == Key(p)
    IN IF k \in ds
       THEN [exc |-> NoExc, kind |-> "DIRECTORY",
             names |-> {x[Len(k) + 1] : x \in {y \in ds \cup DOMAIN fs : IsUnder(y, k) /\ Len(y) > Len(k)}}]
       ELSE IF k \in DOMAIN fs
       THEN [exc |-> NoExc, kind |-> "FILE", names |-> {<<>>}]
       ELSE [exc |-> NoExc, kind |-> "FileNotFound", names |-> {}]

\* the paths handed to _base: the caller paths, and "//a", "a//b", "/a/./b",
\* "/a/../b", "../x", "r/a", "/a/b/.."
ResolveInputs ==
    PathInputs \cup
    { <<"/", "/", "a">>, <<"a", "/", "/", "b">>, <<"/", "a", "/", ".", "/", "b">>,
      <<"/", "a", "/", ".", ".", "/", "b">>, <<".", ".", "/", "x">>,
      <<"r", "/", "a">>, <<"/", "a", "/", "b", "/", ".", ".">> }

\* HadoopFS.getinfo
Getinfo(ds, fs, path) == Status(ds, fs, Base(path), FALSE)

\* HadoopFS._list, run to its end by its consumer, given what list_dir
\* answered. The hdfs_errors wrapper around this generator function returns
\* the generator before any of its code runs, so an exception of list_dir
\* other than FileNotFound leaves the iteration as it is: "PyWebHdfsException".
ListGiven(hdfs_path, ls) ==
    IF hdfs_path = BackRef
    THEN [err |-> "BackReferenceError", ret |-> {}, calls |-> <<>>]
    ELSE [err |-> IF ls.exc # NoExc THEN "PyWebHdfsException"
                  ELSE IF ls.kind = "FileNotFound" THEN "ResourceNotFoundError"
                  ELSE IF ls.names # {} /\ \A n \in ls.names : n = <<>>
                       THEN "ResourceInvalidError"
                  ELSE "ok",
          ret |-> IF ls.exc = NoExc /\ ls.kind = "DIRECTORY" THEN ls.names ELSE {},
          calls |-> <<Call("list_dir", LStripSlash(hdfs_path), <<>>, FALSE)>>]

\* HadoopFS.listdir with the default arguments: the names ilistdir yields
Listdir(ds, fs, path) ==
    ListGiven(Base(path), RemoteList(ds, fs, LStripSlash(Base(path))))

\* a call that leaves the namespace as it is
FinishRead(op, a, err, ret, calls) ==
    /\ last' = Done(op, a, err, ret, calls)
    /\ UNCHANGED <<base, pending, buffersize, dirs, files, handles>>

\* one call of HadoopFS._base on a caller path
resolve ==
    /\ last.op = "idle"
    /\ \E path \in ResolveInputs :
         FinishRead("_base", [path |-> path, again |-> FALSE],
                    IF Base(path) = BackRef THEN "BackReferenceError" ELSE "ok",
                    Base(path), <<>>)

\* HadoopFS._base applied to the path it has just returned
resolve_again ==
    /\ last.op = "_base" /\ last.err = "ok" /\ ~last.a.again
    /\ FinishRead("_base", [path |-> last.ret, again |-> TRUE],
                  IF Base(last.ret) = BackRef THEN "BackReferenceError" ELSE "ok",
                  Base(last.ret), <<>>)

getinfo ==
    /\ last.op = "idle"
    /\ \E path \in ResolveInputs :
         FinishRead("getinfo", [path |-> path], Getinfo(dirs, files, path).err,
                    Getinfo(dirs, files, path).type, Getinfo(dirs, files, path).calls)

listdir ==
    /\ last.op = "idle"
    /\ \E path \in ResolveInputs :
         FinishRead("listdir", [path |-> path], Listdir(dirs, files, path).err,
                    Listdir(dirs, files, path).ret, Listdir(dirs, files, path).calls)

NextRead ==
    \/ resolve
    \/ resolve_again
    \/ getinfo
    \/ listdir
    \/ Return

SpecRead == Init /\ [][NextRead]_vars

-----------------------------------------------------------------------------
(* The operations while the service fails                                  *)

MaxFaultCall == 5

\* one PyWebHdfsException for each row of the translation of hdfs_errors
FaultExcs ==
    { Exc("PathIsNotEmptyDirectoryException", "is non empty"),
      Exc("ParentNotDirectoryException", "Parent path is not a directory"),
      Exc("LeaseExpiredException", "No lease"),
      Exc("IOException", "Connection reset") }

Faults == [k : 1..MaxFaultCall, exc : FaultExcs]

\* getinfo while the service fails as fault says
GetinfoUnder(ds, fs, path, fault) == StatusUnder(ds, fs, Base(path), FALSE, At(fault, 1))

\* listdir while the service fails as fault says
ListdirUnder(ds, fs, path, fault) ==
    ListGiven(Base(path),
              IF fault.k = 1 THEN [exc |-> fault.exc, kind |-> "", names |-> {}]
              ELSE RemoteList(ds, fs, LStripSlash(Base(path))))

faulty_makedir ==
    /\ last.op = "idle"
    /\ \E path \in PathInputs, recursive \in BOOLEAN, allow_recreate \in BOOLEAN, fault \in Faults :
         Finish("makedir",
                [path |-> path, recursive |-> recursive, allow_recreate |-> allow_recreate,
                 fault |-> fault],
                MakedirUnder(dirs, files, path, recursive, allow_recreate, fault))
    /\ UNCHANGED <<base, pending, buffersize, handles>>

faulty_remove ==
    /\ last.op = "idle"
    /\ \E path \in PathInputs, fault \in Faults :
         Finish("remove", [path |-> path, fault |-> fault],
                RemoveUnder(dirs, files, path, fault))
    /\ UNCHANGED <<base, pending, buffersize, handles>>

faulty_removedir ==
    /\ last.op = "idle"
    /\ \E path \in PathInputs, recursive \in BOOLEAN, force \in BOOLEAN, fault \in Faults :
         Finish("removedir",
                [path |-> path, recursive |-> recursive, force |-> force, fault |-> fault],
                RemovedirUnder(dirs, files, path, recursive, force, fault))
    /\ UNCHANGED <<base, pending, buffersize, handles>>

faulty_getinfo ==
    /\ last.op = "idle"
    /\ \E path \in PathInputs, fault \in Faults :
         FinishRead("getinfo", [path |-> path, fault |-> fault],
                    GetinfoUnder(dirs, files, path, fault).err,
                    GetinfoUnder(dirs, files, path, fault).type,
                    GetinfoUnder(dirs, files, path, fault).calls)

faulty_listdir ==
    /\ last.op = "idle"
    /\ \E path \in PathInputs, fault \in Faults :
         FinishRead("listdir", [path |-> path, fault |-> fault],
                    ListdirUnder(dirs, files, path, fault).err,
                    ListdirUnder(dirs, files, path, fault).ret,
                    ListdirUnder(dirs, files, path, fault).calls)

NextFault ==
    \/ faulty_makedir
    \/ faulty_remove
    \/ faulty_removedir
    \/ faulty_getinfo
    \/ faulty_listdir
    \/ Return

SpecFault == Init /\ [][NextFault]_vars

-----------------------------------------------------------------------------
(* rename by a second caller, one client call at a time                    *)

\* the renames of the second caller: "/b" to "/a/c" or to "/a/b/c"
RaceSrcs == {<<"/", "b">>}
RaceDests == {<<"/", "a", "/", "c">>, <<"/", "a", "/", "b", "/", "c">>}

\* a rename that runs all its checks again before the rename_file_dir call
RenameActRechecked(ds, fs, src, dest, s, d, par) == Rename(ds, fs, src, dest)

\* the end of rename: the checks on what the three status calls answered
\* when they were made, and the rename_file_dir call on the namespace as it
\* is now
RenameAct(ds, fs, src, dest, s, d, par) ==
    RenameGiven(ds, fs, Base(src), Base(dest), s, d, par,
                RemoteRename(ds, fs, Base(src), Base(dest)))

\* line 379: the _is_dir_file of the source
rename_src ==
    /\ pending.op = "none"
    /\ \E src \in RaceSrcs, dest \in RaceDests :
         pending' = [op |-> "rename", pc |-> 1, a |-> [src |-> src, dest |-> dest],
                     s |-> IsDirFile(dirs, files, Base(src), FALSE),
                     d |-> <<>>, par |-> <<>>]
    /\ UNCHANGED <<base, buffersize, dirs, files, handles, last>>

\* lines 380-381: the _is_dir_file of the destination
rename_dest ==
    /\ pending.op = "rename" /\ pending.pc = 1
    /\ pending' = [pending EXCEPT !.pc = 2,
                     !.d = IsDirFile(dirs, files, Base(pending.a.dest), FALSE)]
    /\ UNCHANGED <<base, buffersize, dirs, files, handles, last>>

\* line 383: the isdir of the destination's parent
rename_parent ==
    /\ pending.op = "rename" /\ pending.pc = 2
    /\ pending' = [pending EXCEPT !.pc = 3,
                     !.par = IsDir(dirs, files, RenameParent(pending.a.dest))]
    /\ UNCHANGED <<base, buffersize, dirs, files, handles, last>>

\* lines 383-392: the checks and the rename_file_dir call
rename_act ==
    /\ pending.op = "rename" /\ pending.pc = 3
    /\ last.op = "idle"
    /\ Finish("rename",
              [src |-> pending.a.src, dest |-> pending.a.dest,
               s |-> pending.s, d |-> pending.d, par |-> pending.par],
              RenameAct(dirs, files, pending.a.src, pending.a.dest,
                        pending.s, pending.d, pending.par))
    /\ pending' = NoCall
    /\ UNCHANGED <<base, buffersize, handles>>

\* the first caller's makedir and removedir calls, on "/a" and "/a/b", come
\* between the client calls of the second caller's rename
RacePaths == {<<"/", "a">>, <<"/", "a", "/", "b">>}

race_makedir ==
    /\ last.op = "idle"
    /\ \E path \in RacePaths, recursive \in BOOLEAN, allow_recreate \in BOOLEAN :
         Finish("makedir",
                [path |-> path, recursive |-> recursive, allow_recreate |-> allow_recreate],
                Makedir(dirs, files, path, recursive, allow_recreate))
    /\ UNCHANGED <<base, pending, buffersize, handles>>

race_removedir ==
    /\ last.op = "idle"
    /\ \E path \in RacePaths, recursive \in BOOLEAN, force \in BOOLEAN :
         Finish("removedir", [path |-> path, recursive |-> recursive, force |-> force],
                Removedir(dirs, files, path, recursive, force))
    /\ UNCHANGED <<base, pending, buffersize, handles>>

NextRace ==
    \/ rename_src
    \/ rename_dest
    \/ rename_parent
    \/ rename_act
    \/ race_makedir
    \/ race_removedir
    \/ Return

SpecRace == Init /\ [][NextRace]_vars

-----------------------------------------------------------------------------
(* removedir by a second caller, one client call at a time                 *)

\* the removedir calls of the second caller: on "/a/b" and on "/a"
RaceTargets == {<<"/", "a", "/", "b">>, <<"/", "a">>}

\* no delete_file_dir call made yet
NoDel == [made |-> FALSE, n |-> 0, k |-> <<>>, f |-> FALSE, had |-> FALSE, gone |-> FALSE]

\* the record of a delete_file_dir call, the n-th call of the removedir, made
\* on the namespace ds, fs and leaving the directories ds2: its key, its
\* recursive flag, whether the key had children, whether the call removed it
DelRecord(call, n, ds, fs, ds2) ==
    [made |-> TRUE, n |-> n, k |-> Key(call.p), f |-> call.f,
     had |-> HasChildren(ds, fs, Key(call.p)),
     gone |-> Key(call.p) \in ds /\ Key(call.p) \notin ds2]

\* removedir up to its primary delete: the checks on what _status answered
\* when it was called, and the delete_file_dir call on the namespace as it
\* is now
RemovedirPrimary(ds, fs, path, force, info) ==
    RemovedirGiven(ds, fs, path, FALSE, force, Base(path), info,
                   RemoteDelete(ds, fs, Base(path), PrimaryDeleteRecursive(force)),
                   <<>>, NoFault)

\* line 343: the _status of the path
removedir_status ==
    /\ pending.op = "none"
    /\ \E path \in RaceTargets, recursive \in BOOLEAN, force \in BOOLEAN :
         pending' = [op |-> "removedir", pc |-> 1,
                     a |-> [path |-> path, recursive |-> recursive, force |-> force],
                     info |-> Status(dirs, files, Base(path), FALSE),
                     d |-> <<>>, todo |-> <<>>, calls |-> <<>>, err |-> "ok",
                     lastdel |-> NoDel]
    /\ UNCHANGED <<base, buffersize, dirs, files, handles, last>>

\* the primary delete has answered: r is what removedir has left so far
StepPrimary(r) ==
    /\ Bounded(r)
    /\ dirs' = r.dirs
    /\ files' = r.files
    /\ pending' = [pending EXCEPT
         !.calls = r.calls,
         !.err = IF r.err # "ok" THEN r.err
                 ELSE IF pending.a.recursive /\ recursepath(pending.a.path) = BackRef
                      THEN "BackReferenceError"
                 ELSE "ok",
         !.pc = IF r.err = "ok" /\ pending.a.recursive
                   /\ recursepath(pending.a.path) # BackRef
                THEN 2 ELSE 4,
         !.todo = IF r.err = "ok" /\ pending.a.recursive
                     /\ recursepath(pending.a.path) # BackRef
                  THEN recursepath(pending.a.path) ELSE <<>>,
         !.lastdel = IF Len(r.calls) = 2
                     THEN DelRecord(r.calls[2], 2, dirs, files, r.dirs)
                     ELSE NoDel]

\* lines 345-348: the type check and the primary delete_file_dir
removedir_primary ==
    /\ pending.op = "removedir" /\ pending.pc = 1
    /\ StepPrimary(RemovedirPrimary(dirs, files, pending.a.path, pending.a.force,
                                    pending.info))
    /\ UNCHANGED <<base, buffersize, handles, last>>

\* the probe of a pass of the loop has answered d
StepProbe(d) ==
    pending' = [pending EXCEPT
         !.err = d.err,
         !.pc = IF d.err # "ok" THEN 4 ELSE IF d.val THEN 3 ELSE 2,
         !.d = d,
         !.calls = IF d.err = "ok" /\ d.val THEN @ ELSE @ \o d.calls,
         !.todo = IF d.err = "ok" /\ ~d.val THEN Tail(@) ELSE @]

\* lines 351-352: the next dir_path of the loop; "/" is passed over, any other
\* gets its isdir probe
removedir_probe ==
    /\ pending.op = "removedir" /\ pending.pc = 2 /\ pending.todo # <<>>
    /\ IF Head(pending.todo) = <<SEP>>
       THEN pending' = [pending EXCEPT !.todo = Tail(@)]
       ELSE StepProbe(IsDir(dirs, files, Head(pending.todo)))
    /\ UNCHANGED <<base, buffersize, dirs, files, handles, last>>

\* the delete attempt of a pass of the loop has answered: r is what the pass
\* leaves
StepCleanup(r) ==
    /\ Bounded(r)
    /\ dirs' = r.dirs
    /\ files' = r.files
    /\ pending' = [pending EXCEPT
         !.calls = r.calls,
         !.pc = 2,
         !.todo = Tail(@),
         !.lastdel = DelRecord(r.calls[Len(r.calls)], Len(r.calls), dirs, files, r.dirs)]

\* lines 353-357: the delete_file_dir of a directory the probe found
removedir_cleanup ==
    /\ pending.op = "removedir" /\ pending.pc = 3
    /\ StepCleanup(CleanupStep(Out("ok", pending.calls, dirs, files),
                               Base(Head(pending.todo)), pending.d,
                               RemoteDelete(dirs, files, Base(Head(pending.todo)),
                                            CleanupDeleteRecursive(Base(Head(pending.todo))))))
    /\ UNCHANGED <<base, buffersize, handles, last>>

\* removedir returns or raises
removedir_return ==
    /\ pending.op = "removedir"
    /\ pending.pc = 4 \/ (pending.pc = 2 /\ pending.todo = <<>>)
    /\ last.op = "idle"
    /\ last' = Done("removedir", pending.a, pending.err, None, pending.calls)
    /\ pending' = NoCall
    /\ UNCHANGED <<base, buffersize, dirs, files, handles>>

\* the first caller's makedir and removedir calls come between the client
\* calls of the second caller's removedir
NextRaceRemovedir ==
    \/ removedir_status
    \/ removedir_primary
    \/ removedir_probe
    \/ removedir_cleanup
    \/ removedir_return
    \/ race_makedir
    \/ race_removedir
    \/ Return

SpecRaceRemovedir == Init /\ [][NextRaceRemovedir]_vars

-----------------------------------------------------------------------------
(* Vocabulary of the properties                                            *)

\* the caller path resolves (no BackReferenceError)
Resolvable(path) == Base(path) # BackRef
\* the namespace key a caller path resolves to
KeyOf(path) == Key(Base(path))
\* the key of the configured root
RootKey == Key(base)
ParentKey(k) == SubSeq(k, 1, Len(k) - 1)

\* the kind of key k before the call in last
PreKind(k) ==
    IF k \in last.pdirs THEN "DIRECTORY"
    ELSE IF k \in DOMAIN last.pfiles THEN "FILE"
    ELSE "absent"

\* the client calls of method m made by the call in last
CallsOf(m) == {i \in 1..Len(last.calls) : last.calls[i].m = m}
\* the call in last left the namespace as it was
NamespaceUnchanged == dirs = last.pdirs /\ files = last.pfiles

-----------------------------------------------------------------------------
(* Properties                                                              *)

\* C1: removedir on any path that resolves to the configured root raises
\* RemoveRootError whatever recursive and force are, makes no delete call, and
\* the root and its contents are still there afterwards.
C1_RemoveRootForbidden ==
    (last.op = "removedir" /\ Resolvable(last.a.path) /\ KeyOf(last.a.path) = RootKey)
        => /\ last.err = "RemoveRootError"
           /\ CallsOf("delete_file_dir") = {}
           /\ NamespaceUnchanged

\* C2: rename whose resolved destination is prefixed by the resolved source
\* raises ResourceInvalidError, whatever the source is, and makes no rename
\* call.
C2_RenameIntoSubtree ==
    (/\ last.op = "rename"
     /\ Resolvable(last.a.src) /\ Resolvable(last.a.dest)
     /\ isprefix(Base(last.a.src), Base(last.a.dest)))
        => /\ last.err = "ResourceInvalidError"
           /\ CallsOf("rename_file_dir") = {}

\* C3: rename of a source that does not exist, to a destination outside the
\* source whose parent is a directory, raises ResourceNotFoundError and makes
\* no rename call.
C3_RenameMissingSource ==
    (/\ last.op = "rename"
     /\ Resolvable(last.a.src) /\ Resolvable(last.a.dest)
     /\ PreKind(KeyOf(last.a.src)) = "absent"
     /\ KeyOf(last.a.dest) # <<>>
     /\ PreKind(ParentKey(KeyOf(last.a.dest))) = "DIRECTORY"
     /\ ~isprefix(Base(last.a.src), Base(last.a.dest)))
        => /\ last.err = "ResourceNotFoundError"
           /\ CallsOf("rename_file_dir") = {}

\* C4: rename onto an existing destination of the other kind raises
\* ResourceInvalidError and makes no rename call; with source and destination
\* of the same kind, or the destination absent, exactly one rename call is made.
C4_RenameKinds ==
    (/\ last.op = "rename"
     /\ Resolvable(last.a.src) /\ Resolvable(last.a.dest)
     /\ PreKind(KeyOf(last.a.src)) # "absent")
        => LET sk == PreKind(KeyOf(last.a.src))
               dk == PreKind(KeyOf(last.a.dest))
           IN IF dk # "absent" /\ dk # sk
              THEN /\ last.err = "ResourceInvalidError"
                   /\ CallsOf("rename_file_dir") = {}
              ELSE Cardinality(CallsOf("rename_file_dir")) = 1

\* the namespace holds the configured root and nothing else
OnlyRoot(ds, fs) == ds = Prefixes(RootKey) /\ DOMAIN fs = {}

\* C5: after makedir(p, recursive=True) succeeds on a namespace holding only
\* the root, p and each of its ancestors is a directory, and nothing else was
\* created.
C5_MakedirRecursive ==
    (/\ last.op = "makedir" /\ last.a.recursive /\ last.err = "ok"
     /\ OnlyRoot(last.pdirs, last.pfiles))
        => /\ dirs = last.pdirs \cup Prefixes(KeyOf(last.a.path))
           /\ files = last.pfiles

\* C5 witness: a recursive makedir two levels below the root has succeeded
\* on a namespace that held only the root.
C5_Witness ==
    /\ last.op = "makedir" /\ last.a.recursive /\ last.err = "ok"
    /\ OnlyRoot(last.pdirs, last.pfiles)
    /\ Len(KeyOf(last.a.path)) = Len(RootKey) + 2
    /\ KeyOf(last.a.path) \in dirs
    /\ ParentKey(KeyOf(last.a.path)) \in dirs \ last.pdirs

\* C6: a non-recursive makedir of an absent path raises
\* ParentDirectoryMissingError, with no make_dir call, exactly when the parent
\* of the resolved path is not a directory; otherwise it makes one make_dir
\* call and the path is a directory. This for every spelling of the path.
C6_MakedirNonRecursive ==
    (/\ last.op = "makedir" /\ ~last.a.recursive
     /\ Resolvable(last.a.path)
     /\ KeyOf(last.a.path) # <<>>
     /\ PreKind(KeyOf(last.a.path)) = "absent")
        => IF PreKind(ParentKey(KeyOf(last.a.path))) = "DIRECTORY"
           THEN /\ last.err = "ok"
                /\ Cardinality(CallsOf("make_dir")) = 1
                /\ KeyOf(last.a.path) \in dirs
           ELSE /\ last.err = "ParentDirectoryMissingError"
                /\ CallsOf("make_dir") = {}

\* the call in last is a removedir of a directory that had a child
RemovedirNonEmpty ==
    /\ last.op = "removedir"
    /\ Resolvable(last.a.path)
    /\ PreKind(KeyOf(last.a.path)) = "DIRECTORY"
    /\ HasChildren(last.pdirs, last.pfiles, KeyOf(last.a.path))

\* what C7 says of such a call: DirectoryNotEmptyError and nothing removed
\* without force, success and the whole subtree gone with force
RemovedirNonEmptyOutcome ==
    IF last.a.force
    THEN /\ last.err = "ok"
         /\ (dirs \cup DOMAIN files)
              \cap Subtree(last.pdirs, last.pfiles, KeyOf(last.a.path)) = {}
    ELSE /\ last.err = "DirectoryNotEmptyError"
         /\ NamespaceUnchanged

WrongTarget ==
    /\ last.op \in {"remove", "removedir"}
    /\ Resolvable(last.a.path)
    /\ PreKind(KeyOf(last.a.path)) #
         (IF last.op = "remove" THEN "FILE" ELSE "DIRECTORY")
WrongTargetError ==
    IF PreKind(KeyOf(last.a.path)) = "absent"
    THEN "ResourceNotFoundError" ELSE "ResourceInvalidError"

\* C8 as stated: remove on a directory and removedir on a file raise
\* ResourceInvalidError, either on an absent target raises
\* ResourceNotFoundError; no delete call is made and the namespace is unchanged.
C8_Original ==
    WrongTarget
        => /\ last.err = WrongTargetError
           /\ CallsOf("delete_file_dir") = {}
           /\ NamespaceUnchanged

\* what holds of these calls: the same, except that removedir("/") raises
\* RemoveRootError when the root itself is absent
ExceptAbsentRoot ==
    WrongTarget
        => /\ last.err = IF last.op = "removedir" /\ last.a.path = <<SEP>>
                         THEN "RemoveRootError" ELSE WrongTargetError
           /\ CallsOf("delete_file_dir") = {}
           /\ NamespaceUnchanged

\* the handle a read, write or close in last was called on, before the call
PreHandle == last.phandles[last.a.h]

\* C9: write-then-read round trip. Opening in write mode leaves the file
\* empty; each write on a handle adds its bytes to the handle's file; the
\* first read on a handle returns the file's whole content with one read
\* call; a read after that returns end of stream and makes no call.
C9_WriteThenRead ==
    /\ (last.op = "open" /\ InMode("w", last.a.mode) /\ last.err = "ok")
          => /\ KeyOf(last.a.path) \in DOMAIN files
             /\ files[KeyOf(last.a.path)] = <<>>
    /\ (last.op = "write" /\ Key(PreHandle.hdfs_path) \in DOMAIN last.pfiles)
          => /\ last.err = "ok"
             /\ files[Key(PreHandle.hdfs_path)]
                  = last.pfiles[Key(PreHandle.hdfs_path)] \o last.a.data
    /\ (last.op = "read" /\ ~PreHandle.eof
          /\ Key(PreHandle.hdfs_path) \in DOMAIN last.pfiles)
          => /\ last.err = "ok"
             /\ last.ret = last.pfiles[Key(PreHandle.hdfs_path)]
             /\ Cardinality(CallsOf("read_file")) = 1
    /\ (last.op = "read" /\ PreHandle.eof)
          => /\ last.err = "ok"
             /\ last.ret = None
             /\ CallsOf("read_file") = {}

\* C10: open on an absent path raises ResourceNotFoundError in a read-only
\* mode; in a write or append mode it raises ParentDirectoryMissingError when
\* the parent is absent, ResourceInvalidError when the parent is a file, and
\* otherwise makes one create_file call that leaves the path an empty file.
\* No create_file call is made when it raises.
C10_OpenAbsent ==
    (/\ last.op = "open"
     /\ Resolvable(last.a.path)
     /\ KeyOf(last.a.path) # <<>>
     /\ PreKind(KeyOf(last.a.path)) = "absent")
        => LET parent == PreKind(ParentKey(KeyOf(last.a.path)))
               expected ==
                   IF ~InMode("w", last.a.mode) /\ ~InMode("a", last.a.mode)
                   THEN "ResourceNotFoundError"
                   ELSE IF parent = "absent" THEN "ParentDirectoryMissingError"
                   ELSE IF parent = "FILE" THEN "ResourceInvalidError"
                   ELSE "ok"
           IN /\ last.err = expected
              /\ IF expected = "ok"
                 THEN /\ Cardinality(CallsOf("create_file")) = 1
                      /\ KeyOf(last.a.path) \in DOMAIN files
                      /\ files[KeyOf(last.a.path)] = <<>>
                 ELSE CallsOf("create_file") = {}

\* C11: opening an existing file in append mode succeeds with no create_file
\* call and leaves the namespace as it was; each write on a handle then makes
\* exactly one append_file call, after which the file holds what it held
\* followed by the data written.
C11_AppendWrites ==
    /\ (/\ last.op = "open" /\ InMode("a", last.a.mode)
        /\ Resolvable(last.a.path)
        /\ PreKind(KeyOf(last.a.path)) = "FILE")
          => /\ last.err = "ok"
             /\ CallsOf("create_file") = {}
             /\ NamespaceUnchanged
    /\ (last.op = "write" /\ Key(PreHandle.hdfs_path) \in DOMAIN last.pfiles)
          => /\ last.err = "ok"
             /\ Cardinality(CallsOf("append_file")) = 1
             /\ files = [last.pfiles EXCEPT ![Key(PreHandle.hdfs_path)] = @ \o last.a.data]

\* C12: resolving a path that _base returned gives that path back, under every
\* configured root.
C12_ResolveIdempotent ==
    (last.op = "_base" /\ last.a.again) => (last.err = "ok" /\ last.ret = last.a.path)

\* C12 as the code has it: each application of _base prefixes the configured
\* root, so a second application returns the root followed by what the first
\* returned; that is the same path when the root is "/" and never otherwise.
C12_ResolvePrefixes ==
    (last.op = "_base" /\ last.a.again)
        => /\ last.err = "ok"
           /\ Key(last.ret) = RootKey \o Key(last.a.path)
           /\ (last.ret = last.a.path) <=> (base = <<SEP>>)

\* _base was applied a second time under the root "/r", and under "/"
C12_Witness ==
    /\ last.op = "_base" /\ last.a.again
    /\ base = <<"/", "r">>
    /\ last.a.path = <<"r", "/", "a", "/", "b">>
    /\ last.ret = <<"r", "/", "r", "/", "a", "/", "b">>

\* the path has a ".." segment or an empty segment
BadSegment(p) ==
    \/ \E i \in 1..Len(SplitSlash(p)) : SplitSlash(p)[i] = DOTDOT
    \/ (p # <<>> /\ \E i \in 1..Len(SplitSlash(p)) : SplitSlash(p)[i] = <<>>)

\* C13: _base never fails, what it returns has no ".." and no empty segment
\* and lies at or below the configured root, and every client call of an
\* operation is on a path at or below the configured root.
C13_PathScoping ==
    /\ last.op = "_base"
         => /\ last.err = "ok"
            /\ ~BadSegment(last.ret)
            /\ IsUnder(Key(last.ret), RootKey)
    /\ \A i \in 1..Len(last.calls) : IsUnder(Key(last.calls[i].p), RootKey)

\* the client call the service failed was made
FaultHit == last.op # "idle" /\ Len(last.calls) >= last.a.fault.k

\* the failed call is a delete attempt of removedir's loop over the ancestors
CleanupDeleteHit ==
    /\ last.op = "removedir" /\ last.a.fault.k >= 3
    /\ last.calls[last.a.fault.k].m = "delete_file_dir"

\* C14: a client call that raised during an operation reaches the caller as
\* the error hdfs_errors gives for it, unless it is a delete attempt of
\* removedir's loop over the ancestors.
C14_Translated ==
    (FaultHit /\ ~CleanupDeleteHit) => last.err = hdfs_errors(last.a.fault.exc)

\* removedir made its primary delete call and the service carried it out
PrimaryDeleted ==
    /\ last.op = "removedir"
    /\ Len(last.calls) >= 2
    /\ last.calls[2].m = "delete_file_dir"
    /\ last.a.fault.k # 2
    /\ RemoteDelete(last.pdirs, last.pfiles, Base(last.a.path),
                    PrimaryDeleteRecursive(last.a.force)).exc = NoExc

\* C15: once the primary delete of removedir(recursive=True) has gone through,
\* the call returns without error, also when a probe or a delete attempt of
\* the loop over the ancestors fails.
C15_CleanupSwallowed ==
    (PrimaryDeleted /\ last.a.recursive /\ last.a.fault.k >= 3) => last.err = "ok"

\* the ancestors of key k strictly below the configured root
AncestorsBelowRoot(k) ==
    {x \in Prefixes(k) : x # k /\ x # RootKey /\ IsUnder(x, RootKey)}

\* before the call, all that key k held was on the way to p or under p
LeftEmpty(k, p) ==
    \A x \in last.pdirs \cup DOMAIN last.pfiles :
        IsUnder(x, k) => (x \in Prefixes(p) \/ IsUnder(x, p))

\* removedir(recursive=True) returned without error for a path below the root
RemovedirCollapsed ==
    /\ last.op = "removedir" /\ last.a.recursive /\ last.err = "ok"
    /\ Resolvable(last.a.path)
    /\ IsUnder(KeyOf(last.a.path), RootKey) /\ KeyOf(last.a.path) # RootKey

\* C16: after removedir(p, recursive=True) has returned, the ancestors of p
\* strictly below the configured root that the removal left empty are gone,
\* the root is there, and everything else outside p is as it was; no delete
\* attempt of the loop over the ancestors is on the root or above it.
C16_AncestorCollapsing ==
    /\ last.op = "removedir"
         => \A i \in 3..Len(last.calls) :
               last.calls[i].m = "delete_file_dir"
                 => /\ IsUnder(Key(last.calls[i].p), RootKey)
                    /\ Key(last.calls[i].p) # RootKey
    /\ RemovedirCollapsed
        => /\ dirs = last.pdirs \
                       (Subtree(last.pdirs, last.pfiles, KeyOf(last.a.path))
                        \cup {k \in AncestorsBelowRoot(KeyOf(last.a.path)) :
                                 LeftEmpty(k, KeyOf(last.a.path))})
           /\ files = Restrict(last.pfiles,
                               (DOMAIN last.pfiles)
                                 \ Subtree(last.pdirs, last.pfiles, KeyOf(last.a.path)))
           /\ RootKey \in dirs
           /\ \A k \in AncestorsBelowRoot(KeyOf(last.a.path)) :
                 k \in dirs => HasChildren(dirs, files, k)

\* the removal of a/b/c emptied a/b, which is gone, and a, which holds
\* another child, is there
C16_Witness ==
    /\ RemovedirCollapsed
    /\ Cardinality(AncestorsBelowRoot(KeyOf(last.a.path)) \cap last.pdirs) = 2
    /\ Cardinality(AncestorsBelowRoot(KeyOf(last.a.path)) \cap dirs) = 1
    /\ ParentKey(KeyOf(last.a.path)) \notin dirs

\* C17: removedir on a path that resolves to the configured root, and rename
\* of a path into its own subtree, raise their error without any client call
\* having been made, get_file_dir_status calls included.
C17_RejectedBeforeCalls ==
    /\ (last.op = "removedir" /\ Resolvable(last.a.path) /\ KeyOf(last.a.path) = RootKey)
          => (last.err = "RemoveRootError" /\ last.calls = <<>>)
    /\ (/\ last.op = "rename"
        /\ Resolvable(last.a.src) /\ Resolvable(last.a.dest)
        /\ isprefix(Base(last.a.src), Base(last.a.dest)))
          => (last.err = "ResourceInvalidError" /\ last.calls = <<>>)

\* C18: every handle open has returned has a buffersize of its own, so that
\* the read_file and append_file calls made through it have a value to pass:
\* no read or write fails for want of it.
C18_HandleChunkSize ==
    /\ \A i \in 1..MaxHandles :
          handles[i] # NoHandle => "buffersize" \in handles[i].attrs
    /\ last.op \in {"read", "write"} => last.err # "AttributeError"

\* C19: no operation changes a field of the HadoopFS instance: buffersize,
\* the one field an operation assigns, is after the call what it was before.
C19_NoInstanceState ==
    last.op # "idle" => buffersize = last.pbuf

\* the checks of the staged rename passed on what the status calls answered
RenameChecksPassed ==
    /\ last.op = "rename"
    /\ last.a.par.val
    /\ ~isprefix(Base(last.a.src), Base(last.a.dest))
    /\ ~KindMismatch(last.a.s.is_dir, last.a.d.is_dir, last.a.d.is_file)

\* C20: a rename whose checks passed when its status calls were made issues
\* its rename_file_dir call whatever another caller has done to the namespace
\* since: three status calls, then the rename, nothing checked again.
C20_ActsOnEarlierCheck ==
    RenameChecksPassed
        => /\ Len(last.calls) = 4
           /\ CallsOf("rename_file_dir") = {4}

\* the rename_file_dir call was issued although, when it was, the directory
\* the parent check had found was no longer there
C20_Witness ==
    /\ RenameChecksPassed
    /\ CallsOf("rename_file_dir") = {4}
    /\ ParentKey(KeyOf(last.a.dest)) \notin last.pdirs

\* the removedir under way has made a delete_file_dir call
DeleteMade == pending.op = "removedir" /\ pending.lastdel.made

\* the delete_file_dir call was the primary delete of a removedir with force
ForcedPrimary == pending.a.force /\ pending.lastdel.n = 2

\* C21: whatever other callers do between its client calls, a delete call of
\* removedir is recursive only if it is the primary delete and force is set,
\* and a directory that holds a child when the delete call on it is made is
\* removed only by such a call.
C21_NoNonEmptyRemoval ==
    DeleteMade
        => /\ pending.lastdel.f => ForcedPrimary
           /\ (pending.lastdel.had /\ pending.lastdel.gone) => ForcedPrimary

\* an ancestor the probe found was given a child by another caller before the
\* delete attempt on it: the attempt, not recursive, left it in place
C21_Witness ==
    /\ DeleteMade
    /\ pending.lastdel.n > 2
    /\ pending.lastdel.had /\ ~pending.lastdel.f /\ ~pending.lastdel.gone
    /\ pending.lastdel.k \in dirs
    /\ pending.d.val

====
